---- MODULE Spec2Model ----
(***************************************************************************)
(* UsbSerialHelper (its open / close / read / write / discovery methods),  *)
(* the Android USB service and the usb-serial driver objects it calls      *)
(* through JNI, and the main program that drives the helper from a polling *)
(* timer.                                                                  *)
(*                                                                         *)
(* A QJniObject is modelled by the identity of the Java object it refers   *)
(* to; NULL is the invalid (default constructed) QJniObject.  What a JNI   *)
(* call answers is the environment's choice: every helper method takes the *)
(* answers of the calls it makes as inputs and records the calls it made,  *)
(* in order, in `calls`.                                                   *)
(***************************************************************************)
EXTENDS Integers, Sequences, FiniteSets, TLC

\* ------------------------------------------------------------- bounds
NumDrivers == 2   \* driver objects the prober can report
MaxList    == 2   \* longest driver list of findAllDrivers
MaxLen     == 2   \* longest read buffer / write payload
MaxGarbage == 1   \* an uninitialised int reads as any of 0..MaxGarbage
MaxIntents == 3   \* intents the activity gets (the one of onCreate included)

\* ------------------------------------------------------------- JNI objects
NULL == 0                         \* QJniObject(): isValid() is false

IsValid(obj) == obj # NULL

DriverIds == 1..NumDrivers

\* driver.getDevice(): the UsbDevice of a driver, NULL when the call yields
\* no object (every second driver of the universe)
getDevice(d) == IF d % 2 = 0 THEN NULL ELSE 100 + d

Devices == {getDevice(d) : d \in DriverIds} \ {NULL}

\* driver.getPorts(): one or two ports per driver
PortCount(d) == IF d % 2 = 1 THEN 2 ELSE 1

getPorts(d) == [i \in 1..PortCount(d) |-> 10 * d + i]

Ports == UNION {{getPorts(d)[i] : i \in 1..PortCount(d)} : d \in DriverIds}

\* usbDevice.getDeviceName / getVendorId / getProductId
getDeviceName(dev) == <<"/dev/bus/usb", dev>>

getVendorId(dev) == 1000 + dev

getProductId(dev) == 2000 + dev

\* driver.getClass().getSimpleName()
getSimpleName(d) == IF d % 2 = 1 THEN "CdcAcmSerialDriver" ELSE "FtdiSerialDriver"

Byte == {0, 1}

\* byte strings of length 0..n
RECURSIVE ByteSeqs(_)
ByteSeqs(n) == IF n = 0 THEN {<< >>}
               ELSE ByteSeqs(n - 1) \cup [1..n -> Byte]

\* one recorded JNI call: method, receiver/argument object, arguments, the
\* value it answered and whether it raised a Java exception
Call(name, obj, a, res, exc) ==
    [call |-> name, obj |-> obj, args |-> a, res |-> res, exc |-> exc]

\* ------------------------------------------------------------- state
VARIABLES
    driverList,   \* what prober.findAllDrivers(usbManager) answers now
    permitted,    \* devices usbManager.hasPermission answers true for
    openPorts,    \* ports whose open() succeeded and close() was not called
    m_driver,     \* UsbSerialHelper::m_driver
    m_port,       \* UsbSerialHelper::m_port
    op,           \* the helper method that ran last
    args,         \* its arguments
    answers,      \* what the environment answered that the calls do not show
    ret,          \* its return value
    calls,        \* the JNI calls it made, in order
    connected,    \* history: the last openDevice / closeDevice was an openDevice
                  \* that returned true
    retry         \* history: <<args>> of an openDevice that returned false for
                  \* missing permission, kept while only permissions are granted;
                  \* <<args, "retried">> after the openDevice that repeated it
VARIABLES
    pc,           \* main(): where it is
    mainDevices,  \* main(): devices, the list the scan returned
    variant,      \* main(): which of the two versions of main() runs
    readCount,    \* main(): readCount
    timerActive,  \* main(): readTimer is running
    qmlFailed,    \* main(): the engine emitted objectCreationFailed
    exitCode,     \* main(): what main returned (NULL while it runs)
    trace         \* history: the helper methods main called, in order

VARIABLES
    instance,       \* MainActivity.instance
    pendingDevice,  \* MainActivity.pendingDevice
    qtInitialized,  \* MainActivity.qtInitialized
    uiPc,           \* the activity's thread: where it is in its callback
    uiIntent,       \* the intent its callback handles
    qtPc,           \* the Qt thread: where it is in onQtInitialized
    qtStarted,      \* super.onCreate has started the Qt thread
    notified,       \* the nativeNotifyUsbDevice calls made, in order
    handled,        \* history: the serial devices whose attach intent was handled
    intents         \* history: how many intents the activity got

envVars    == <<driverList, permitted, openPorts>>
helperVars == <<m_driver, m_port>>
obsVars    == <<op, args, answers, ret, calls>>
histVars   == <<connected, retry>>
mainVars   == <<pc, mainDevices, variant, readCount, timerActive, qmlFailed, exitCode,
               trace>>
activityVars == <<instance, pendingDevice, qtInitialized, uiPc, uiIntent, qtPc,
                  qtStarted, notified, handled, intents>>
vars       == <<envVars, helperVars, obsVars, histVars, mainVars, activityVars>>


\* the helper and what it touches, threaded through the statements of a method
Cur == [done |-> FALSE, ret |-> FALSE, m_driver |-> m_driver, m_port |-> m_port,
        openPorts |-> openPorts, usbDevice |-> NULL, calls |-> << >>,
        failed |-> "none"]

Log(s, c) == [s EXCEPT !.calls = Append(@, c)]

Return(s, value) == [s EXCEPT !.done = TRUE, !.ret = value]

\* return false for the failure `fault` of the environment
Fail(s, fault) == [s EXCEPT !.done = TRUE, !.ret = FALSE, !.failed = fault]

\* ------------------------------------------------------------- closeDevice
\* mutant of closeDeviceFrom: a close() that raises leaves m_port as it was
closeDeviceFrom_KeepsPortOnException(s, closeExc) ==
    LET closed == IF IsValid(s.m_port)
                  THEN [Log(s, Call("close", s.m_port, << >>, NULL, closeExc))
                           EXCEPT !.openPorts = @ \ {s.m_port},
                                  !.m_port = IF closeExc THEN @ ELSE NULL]
                  ELSE s
    IN  [closed EXCEPT !.m_driver = NULL]

\* closeDevice(): close() on a valid port, whatever it raises, then both
\* handles are reset
closeDeviceFrom(s, closeExc) ==
    LET closed == IF IsValid(s.m_port)
                  THEN [Log(s, Call("close", s.m_port, << >>, NULL, closeExc))
                           EXCEPT !.openPorts = @ \ {s.m_port}, !.m_port = NULL]
                  ELSE s
    IN  [closed EXCEPT !.m_driver = NULL]

\* ------------------------------------------------------------- openDevice
\* what can go wrong in one openDevice call: the first failing answer ends the
\* call, so one fault per call covers every combination of answers
\* ("setParametersExc+closeExc": the close() that follows raises as well);
\* a fault the call does not get to is not recorded as having happened
OpenFaults == {"none", "noNative", "noService", "portInvalid", "connFail",
               "openExc", "setParametersExc", "setParametersExc+closeExc"}

\* mutant of FindDrivers: an index out of range drops the driver handle
FindDrivers_ResetsDriver(s, deviceIndex, fault) ==
    IF fault = "noNative" THEN Fail(s, fault)
    ELSE LET size == IF fault = "noService" THEN 0 ELSE Len(driverList)
             s0 == IF fault = "noService" THEN [s EXCEPT !.failed = fault] ELSE s
             s1 == Log(s0, Call("findAllDrivers", NULL, << >>, size, FALSE))
         IN  IF deviceIndex < 0 \/ deviceIndex >= size
             THEN Return([s1 EXCEPT !.m_driver = NULL], FALSE)
             ELSE s1

\* nativeInterface check, findAllDrivers, size and the device index check
FindDrivers(s, deviceIndex, fault) ==
    IF fault = "noNative" THEN Fail(s, fault)
    ELSE LET size == IF fault = "noService" THEN 0 ELSE Len(driverList)
             s0 == IF fault = "noService" THEN [s EXCEPT !.failed = fault] ELSE s
             s1 == Log(s0, Call("findAllDrivers", NULL, << >>, size, FALSE))
         IN  IF deviceIndex < 0 \/ deviceIndex >= size
             THEN Return(s1, FALSE)
             ELSE s1

\* mutant of GetDriver: a helper that still holds a driver refuses to open
GetDriver_RefusesWhenHeld(s, deviceIndex) ==
    IF s.done THEN s
    ELSE IF IsValid(s.m_driver) THEN Return(s, FALSE)
    ELSE LET s1 == [s EXCEPT !.m_driver = driverList[deviceIndex + 1]]
         IN  IF ~IsValid(s1.m_driver) THEN Return(s1, FALSE) ELSE s1

\* m_driver = driverList.get(deviceIndex)
GetDriver(s, deviceIndex) ==
    IF s.done THEN s
    ELSE LET s1 == [s EXCEPT !.m_driver = driverList[deviceIndex + 1]]
         IN  IF ~IsValid(s1.m_driver) THEN Return(s1, FALSE) ELSE s1

\* requestPermission(usbManager, usbDevice)
requestPermission(s, usbDevice) ==
    Log(s, Call("requestPermission", usbDevice, << >>, NULL, FALSE))

\* mutant of CheckPermission: the return after requestPermission is missing
CheckPermission_NoReturn(s) ==
    IF s.done THEN s
    ELSE LET usbDevice     == getDevice(s.m_driver)
             hasPermission == usbDevice \in permitted
             s1 == Log([s EXCEPT !.usbDevice = usbDevice],
                       Call("hasPermission", usbDevice, << >>, hasPermission, FALSE))
         IN  IF ~hasPermission THEN requestPermission(s1, usbDevice) ELSE s1

\* getDevice, hasPermission and the permission branch
CheckPermission(s) ==
    IF s.done THEN s
    ELSE LET usbDevice     == getDevice(s.m_driver)
             hasPermission == usbDevice \in permitted
             s1 == Log([s EXCEPT !.usbDevice = usbDevice],
                       Call("hasPermission", usbDevice, << >>, hasPermission, FALSE))
         IN  IF ~hasPermission
             THEN Return(requestPermission(s1, usbDevice), FALSE)
             ELSE s1

\* getPorts, the port index check and m_port = ports.get(portIndex)
GetPort(s, portIndex, fault) ==
    IF s.done THEN s
    ELSE LET ports     == getPorts(s.m_driver)
             portCount == Len(ports)
             s1 == Log(s, Call("getPorts", s.m_driver, << >>, portCount, FALSE))
         IN  IF portIndex < 0 \/ portIndex >= portCount
             THEN Return(s1, FALSE)
             ELSE LET s2 == [s1 EXCEPT !.m_port = IF fault = "portInvalid" THEN NULL
                                                   ELSE ports[portIndex + 1]]
                  IN  IF ~IsValid(s2.m_port) THEN Fail(s2, "portInvalid") ELSE s2

\* connection = usbManager.openDevice(usbDevice)
OpenConnection(s, fault) ==
    IF s.done THEN s
    ELSE LET ok == fault # "connFail"
             s1 == Log(s, Call("usbManager.openDevice", s.usbDevice, << >>, ok, FALSE))
         IN  IF ~ok THEN Fail(s1, fault) ELSE s1

\* mutant of OpenPort: the exception of open() is not checked
OpenPort_IgnoresException(s, fault) ==
    IF s.done THEN s
    ELSE LET exc == fault = "openExc"
             s1  == Log(s, Call("open", s.m_port, << >>, NULL, exc))
         IN  [s1 EXCEPT !.openPorts = @ \cup {s.m_port}]

\* m_port.open(connection)
OpenPort(s, fault) ==
    IF s.done THEN s
    ELSE LET exc == fault = "openExc"
             s1  == Log(s, Call("open", s.m_port, << >>, NULL, exc))
         IN  IF exc THEN Fail(s1, fault)
             ELSE [s1 EXCEPT !.openPorts = @ \cup {s.m_port}]

\* mutant of SetParameters: the closeDevice() of the failure path is missing
SetParameters_NoClose(s, baudRate, fault) ==
    IF s.done THEN s
    ELSE LET exc == fault \in {"setParametersExc", "setParametersExc+closeExc"}
             s1  == Log(s, Call("setParameters", s.m_port, <<baudRate, 8, 1, 0>>,
                                NULL, exc))
         IN  IF exc THEN Fail(s1, fault)
             ELSE Return(s1, TRUE)

\* m_port.setParameters(baudRate, 8, 1, 0); on an exception closeDevice()
SetParameters(s, baudRate, fault) ==
    IF s.done THEN s
    ELSE LET exc == fault \in {"setParametersExc", "setParametersExc+closeExc"}
             closeExc == fault = "setParametersExc+closeExc"
             s1  == Log(s, Call("setParameters", s.m_port, <<baudRate, 8, 1, 0>>,
                                NULL, exc))
         IN  IF exc THEN Fail(closeDeviceFrom(s1, closeExc), fault)
             ELSE Return(s1, TRUE)

openDeviceFrom(s, deviceIndex, portIndex, baudRate, fault) ==
    SetParameters(
      OpenPort(
        OpenConnection(
          GetPort(
            CheckPermission(
              GetDriver(
                FindDrivers(s, deviceIndex, fault),
                deviceIndex)),
            portIndex, fault),
          fault),
        fault),
      baudRate, fault)

\* ------------------------------------------------------------- readData
\* mutant of ReadResult: the whole buffer is returned, not its first bytesRead bytes
ReadResult_WholeBuffer(buffer, bytesRead, exc) ==
    IF exc THEN << >>
    ELSE IF bytesRead <= 0 THEN << >>
    ELSE buffer

\* what readData returns from the driver's answer
ReadResult(buffer, bytesRead, exc) ==
    IF exc THEN << >>
    ELSE IF bytesRead <= 0 THEN << >>
    ELSE SubSeq(buffer, 1, bytesRead)

\* mutant of readDataFrom: a read that raises drops the port handle
readDataFrom_DropsPort(s, maxLength, timeoutMs, buffer, bytesRead, exc) ==
    IF ~IsValid(s.m_port) THEN Return(s, << >>)
    ELSE Return([Log(s, Call("read", s.m_port, <<maxLength, timeoutMs>>,
                             [bytesRead |-> bytesRead, buffer |-> buffer], exc))
                    EXCEPT !.m_port = IF exc THEN NULL ELSE @],
                ReadResult(buffer, bytesRead, exc))

\* (buffer: the read buffer after the call, up to the last byte the driver
\* stored; what follows is 0, as NewByteArray left it)
readDataFrom(s, maxLength, timeoutMs, buffer, bytesRead, exc) ==
    IF ~IsValid(s.m_port) THEN Return(s, << >>)
    ELSE Return(Log(s, Call("read", s.m_port, <<maxLength, timeoutMs>>,
                            [bytesRead |-> bytesRead, buffer |-> buffer], exc)),
                ReadResult(buffer, bytesRead, exc))

\* ------------------------------------------------------------- writeData
\* mutant of WriteResult: only a short count is refused
WriteResult_AcceptsLong(size, bytesWritten, exc) ==
    IF exc THEN FALSE
    ELSE IF bytesWritten < size THEN FALSE
    ELSE TRUE

\* what writeData returns from the driver's answer
WriteResult(size, bytesWritten, exc) ==
    IF exc THEN FALSE
    ELSE IF bytesWritten # size THEN FALSE
    ELSE TRUE

writeDataFrom(s, data, timeoutMs, bytesWritten, exc) ==
    IF ~IsValid(s.m_port) THEN Return(s, FALSE)
    ELSE Return(Log(s, Call("write", s.m_port, <<data, timeoutMs>>, bytesWritten, exc)),
                WriteResult(Len(data), bytesWritten, exc))

\* ------------------------------------------------------------- discovery
ScanFaults == {"none", "noNative", "noContext", "noManager", "noProber", "noList"}

\* the SerialDevice of one valid driver; `junk` is what the two ints left
\* uninitialised hold when the driver has no UsbDevice
SerialDevice(driver, junk) ==
    LET usbDevice == getDevice(driver)
    IN  [deviceName |-> IF IsValid(usbDevice) THEN getDeviceName(usbDevice) ELSE << >>,
         vendorId   |-> IF IsValid(usbDevice) THEN getVendorId(usbDevice) ELSE junk.vendorId,
         productId  |-> IF IsValid(usbDevice) THEN getProductId(usbDevice) ELSE junk.productId,
         driverName |-> getSimpleName(driver),
         portCount  |-> Len(getPorts(driver))]

\* mutant of ScanLoop: an invalid driver ends the loop (break for continue)
RECURSIVE ScanLoop_Break(_, _, _, _)
ScanLoop_Break(list, i, devices, junk) ==
    IF i >= Len(list) THEN devices
    ELSE LET driver == list[i + 1]
         IN  IF ~IsValid(driver)
             THEN devices
             ELSE ScanLoop_Break(list, i + 1,
                                 Append(devices, SerialDevice(driver, junk[i + 1])), junk)

\* the loop over the driver list, from index i (0-based) on
RECURSIVE ScanLoop(_, _, _, _)
ScanLoop(list, i, devices, junk) ==
    IF i >= Len(list) THEN devices
    ELSE LET driver == list[i + 1]
         IN  IF ~IsValid(driver)
             THEN ScanLoop(list, i + 1, devices, junk)
             ELSE ScanLoop(list, i + 1,
                           Append(devices, SerialDevice(driver, junk[i + 1])), junk)

getAvailableDevicesResult(fault, junk) ==
    IF fault # "none" THEN << >>
    ELSE ScanLoop(driverList, 0, << >>, junk)

getDriverAtIndexResult(index, fault) ==
    IF fault = "noNative" THEN NULL
    ELSE LET size == IF fault = "noService" THEN 0 ELSE Len(driverList)
         IN  IF index < 0 \/ index >= size THEN NULL
             ELSE driverList[index + 1]

\* ------------------------------------------------------------- inputs
DeviceIndexes == -1..MaxList

PortIndexes == -1..2

BaudRates == {9600, 115200}

Timeouts == {100, 1000}

Junk == [vendorId : 0..MaxGarbage, productId : 0..MaxGarbage]

\* driver lists: no driver object twice, NULL for an entry that is no object
DriverLists ==
    {l \in UNION {[1..n -> {NULL} \cup DriverIds] : n \in 0..MaxList} :
        \A i, j \in DOMAIN l : (i # j /\ IsValid(l[i])) => l[i] # l[j]}

\* the state after a helper method ran
Ran(s, name, a, answered) ==
    /\ answers'   = answered
    /\ m_driver'  = s.m_driver
    /\ m_port'    = s.m_port
    /\ openPorts' = s.openPorts
    /\ op'        = name
    /\ args'      = a
    /\ ret'       = s.ret
    /\ calls'     = s.calls
    /\ UNCHANGED activityVars

\* the state after a static method or the environment ran
Static(name, a, answered, value) ==
    /\ answers' = answered
    /\ op'    = name
    /\ args'  = a
    /\ ret'   = value
    /\ calls' = << >>
    /\ UNCHANGED <<helperVars, openPorts>>
    /\ UNCHANGED activityVars

\* ------------------------------------------------------------- actions
\* the one MainActivity object
Activity == 1

\* an intent: its action and its EXTRA_DEVICE
Intent(action, device) == [action |-> action, device |-> device]

NoIntent == Intent("none", NULL)

\* the activity after the helper's constructor called onQtInitialized, with no
\* attach intent so far
QtInitialized ==
    /\ instance = Activity
    /\ pendingDevice = NULL
    /\ qtInitialized = TRUE
    /\ uiPc = "idle"
    /\ uiIntent = NoIntent
    /\ qtPc = "done"
    /\ qtStarted = TRUE
    /\ notified = << >>
    /\ handled = << >>
    /\ intents = 1

\* a constructed helper, main() not yet past its first statement
Constructed ==
    /\ QtInitialized
    /\ driverList \in DriverLists
    /\ permitted \in SUBSET Devices
    /\ openPorts = {}
    /\ m_driver = NULL
    /\ m_port = NULL
    /\ op = "UsbSerialHelper"
    /\ args = << >>
    /\ ret = NULL
    /\ calls = << >>
    /\ answers = << >>
    /\ connected = FALSE
    /\ retry = << >>
    /\ pc = "main"
    /\ mainDevices = << >>
    /\ readCount = 0
    /\ timerActive = FALSE
    /\ qmlFailed = FALSE
    /\ exitCode = NULL
    /\ trace = << >>

Init ==
    /\ Constructed
    /\ variant = 1

\* the openDevice that just ran returned for missing permission
PermissionDenied(s) ==
    /\ Len(s.calls) > 0
    /\ s.calls[Len(s.calls)].call = "requestPermission"

openDevice(deviceIndex, portIndex, baudRate, fault) ==
    /\ Ran(openDeviceFrom(Cur, deviceIndex, portIndex, baudRate, fault),
           "openDevice", <<deviceIndex, portIndex, baudRate>>,
           openDeviceFrom(Cur, deviceIndex, portIndex, baudRate, fault).failed)
    /\ connected' = ret'
    /\ retry' = IF PermissionDenied([calls |-> calls']) THEN <<args'>>
                ELSE IF Len(retry) = 1 /\ retry[1] = args' THEN <<args', "retried">>
                ELSE << >>
    /\ UNCHANGED <<driverList, permitted>>

closeDevice(closeExc) ==
    /\ Ran(Return(closeDeviceFrom(Cur, closeExc), NULL), "closeDevice", << >>, closeExc)
    /\ connected' = FALSE
    /\ retry' = << >>
    /\ UNCHANGED <<driverList, permitted>>

readData(maxLength, timeoutMs, buffer, bytesRead, exc) ==
    /\ Ran(readDataFrom(Cur, maxLength, timeoutMs, buffer, bytesRead, exc),
           "readData", <<maxLength, timeoutMs>>, << >>)
    /\ retry' = << >>
    /\ UNCHANGED <<driverList, permitted, connected>>

writeData(data, timeoutMs, bytesWritten, exc) ==
    /\ Ran(writeDataFrom(Cur, data, timeoutMs, bytesWritten, exc),
           "writeData", <<data, timeoutMs>>, << >>)
    /\ retry' = << >>
    /\ UNCHANGED <<driverList, permitted, connected>>

getAvailableDevices(fault, junk) ==
    /\ Static("getAvailableDevices", << >>, fault, getAvailableDevicesResult(fault, junk))
    /\ retry' = << >>
    /\ UNCHANGED <<driverList, permitted, connected>>

getDriverAtIndex(index, fault) ==
    /\ Static("getDriverAtIndex", <<index>>, fault, getDriverAtIndexResult(index, fault))
    /\ retry' = << >>
    /\ UNCHANGED <<driverList, permitted, connected>>

\* a device is attached: the prober reports one more driver, at any index
Attach ==
    \E d \in DriverIds, k \in 0..Len(driverList) :
        /\ Len(driverList) < MaxList
        /\ \A i \in DOMAIN driverList : driverList[i] # d
        /\ driverList' = SubSeq(driverList, 1, k) \o <<d>>
                         \o SubSeq(driverList, k + 1, Len(driverList))
        /\ Static("attach", <<d, k>>, << >>, NULL)
        /\ retry' = << >>
        /\ UNCHANGED <<permitted, connected>>

\* a device is detached: its entry leaves the list
Detach ==
    \E k \in DOMAIN driverList :
        /\ driverList' = SubSeq(driverList, 1, k - 1)
                         \o SubSeq(driverList, k + 1, Len(driverList))
        /\ Static("detach", <<k>>, << >>, NULL)
        /\ retry' = << >>
        /\ UNCHANGED <<permitted, connected>>

\* the user answers the permission dialog, or the permission is withdrawn
GrantPermission ==
    \E dev \in Devices \ permitted :
        /\ permitted' = permitted \cup {dev}
        /\ Static("grant", <<dev>>, << >>, NULL)
        /\ UNCHANGED <<driverList, connected, retry>>

RevokePermission ==
    \E dev \in permitted :
        /\ permitted' = permitted \ {dev}
        /\ Static("revoke", <<dev>>, << >>, NULL)
        /\ retry' = << >>
        /\ UNCHANGED <<driverList, connected>>

\* the caller has taken the result of the method that ran last
Returned ==
    /\ op # "idle"
    /\ op' = "idle"
    /\ args' = << >>
    /\ answers' = << >>
    /\ ret' = NULL
    /\ calls' = << >>
    /\ UNCHANGED <<envVars, helperVars, histVars, mainVars, activityVars>>

\* the junk of a scan: one pair of ints for each driver without a UsbDevice
JunkFor(list) ==
    {junk \in [DOMAIN list -> Junk] :
        \A i \in DOMAIN list :
            (~IsValid(list[i]) \/ IsValid(getDevice(list[i])))
            => junk[i] = [vendorId |-> 0, productId |-> 0]}

\* the helper used in any order while devices come and go, each method called
\* once the result of the one before was taken; the driver's read and write
\* answers are drawn from the few that differ in outcome
Next ==
    \/ /\ op = "idle"
       /\ \E deviceIndex \in DeviceIndexes, portIndex \in PortIndexes,
             fault \in OpenFaults :
              openDevice(deviceIndex, portIndex, 9600, fault)
       /\ UNCHANGED mainVars
    \/ /\ op = "idle"
       /\ \E closeExc \in BOOLEAN : closeDevice(closeExc)
       /\ UNCHANGED mainVars
    \/ /\ op = "idle"
       /\ \E bytesRead \in {-1, 0, 1}, exc \in BOOLEAN :
              readData(1, 1000, <<1>>, bytesRead, exc)
       /\ UNCHANGED mainVars
    \/ /\ op = "idle"
       /\ \E bytesWritten \in {0, 1}, exc \in BOOLEAN :
              writeData(<<1>>, 1000, bytesWritten, exc)
       /\ UNCHANGED mainVars
    \/ /\ op = "idle"
       /\ \/ \E fault \in ScanFaults \ {"none"} : getAvailableDevices(fault, << >>)
          \/ \E junk \in JunkFor(driverList) : getAvailableDevices("none", junk)
       /\ UNCHANGED mainVars
    \/ /\ op = "idle"
       /\ \E index \in DeviceIndexes, fault \in {"none", "noNative", "noService"} :
              getDriverAtIndex(index, fault)
       /\ UNCHANGED mainVars
    \/ op = "idle" /\ Attach /\ UNCHANGED mainVars
    \/ op = "idle" /\ Detach /\ UNCHANGED mainVars
    \/ op = "idle" /\ GrantPermission /\ UNCHANGED mainVars
    \/ op = "idle" /\ RevokePermission /\ UNCHANGED mainVars
    \/ Returned

Spec == Init /\ [][Next]_vars

\* one attached device, the helper opened and closed on it in any order, and
\* every answer the driver can give to a read or a write
IoInit ==
    /\ Init
    /\ driverList = <<1>>

IoNext ==
    \/ \E portIndex \in PortIndexes, baudRate \in BaudRates, fault \in OpenFaults :
           openDevice(0, portIndex, baudRate, fault) /\ UNCHANGED mainVars
    \/ \E closeExc \in BOOLEAN : closeDevice(closeExc) /\ UNCHANGED mainVars
    \/ \E maxLength \in 0..MaxLen, timeoutMs \in Timeouts :
           \E buffer \in [1..maxLength -> Byte], bytesRead \in -1..maxLength,
              exc \in BOOLEAN :
               readData(maxLength, timeoutMs, buffer, bytesRead, exc)
               /\ UNCHANGED mainVars
    \/ \E data \in ByteSeqs(MaxLen), timeoutMs \in Timeouts :
           \E bytesWritten \in -1..(Len(data) + 1), exc \in BOOLEAN :
               writeData(data, timeoutMs, bytesWritten, exc) /\ UNCHANGED mainVars
    \/ GrantPermission /\ UNCHANGED mainVars

IoSpec == IoInit /\ [][IoNext]_vars

\* ------------------------------------------------------------- main()
maxReads == 10

ReadBufferSize == 1024

\* "Hello USB!\r\n"
testData == <<72, 101, 108, 108, 111, 32, 85, 83, 66, 33, 13, 10>>

Called(name, ok) == [m |-> name, ok |-> ok]

\* mutant of ReachedMaxReads: the comparison is off by one
ReachedMaxReads_OffByOne(count) == count > maxReads

\* readCount >= maxReads
ReachedMaxReads(count) == count >= maxReads

\* the scan, and what the two versions of main() do with an empty list
MainScan ==
    /\ pc = "main"
    /\ \E fault \in ScanFaults, junk \in JunkFor(driverList) :
           getAvailableDevices(fault, junk)
    /\ mainDevices' = ret'
    /\ trace' = Append(trace, Called("getAvailableDevices", TRUE))
    /\ pc' = IF ret' # << >> THEN "open" ELSE IF variant = 1 THEN "load" ELSE "returned"
    /\ exitCode' = IF ret' = << >> /\ variant = 2 THEN 1 ELSE exitCode
    /\ UNCHANGED <<variant, readCount, timerActive, qmlFailed>>

\* mutant of MainOpen: the return 1 of a failed openDevice is missing
MainOpen_GoesOn ==
    /\ pc = "open"
    /\ \E fault \in OpenFaults : openDevice(0, 0, 9600, fault)
    /\ trace' = Append(trace, Called("openDevice", ret'))
    /\ pc' = "write"
    /\ UNCHANGED <<mainDevices, variant, readCount, timerActive, qmlFailed, exitCode>>

\* helper.openDevice(0, 0, 9600), return 1 when it fails
MainOpen ==
    /\ pc = "open"
    /\ \E fault \in OpenFaults : openDevice(0, 0, 9600, fault)
    /\ trace' = Append(trace, Called("openDevice", ret'))
    /\ pc' = IF ret' THEN "write" ELSE "returned"
    /\ exitCode' = IF ret' THEN exitCode ELSE 1
    /\ UNCHANGED <<mainDevices, variant, readCount, timerActive, qmlFailed>>

\* helper.writeData(testData), then the timer is connected and started
MainWrite ==
    /\ pc = "write"
    /\ \E bytesWritten \in {0, Len(testData)}, exc \in BOOLEAN :
           writeData(testData, 1000, bytesWritten, exc)
    /\ trace' = Append(trace, Called("writeData", ret'))
    /\ timerActive' = TRUE
    /\ pc' = "load"
    /\ mainDevices' = << >>      \* devices is not read past this point
    /\ UNCHANGED <<variant, readCount, qmlFailed, exitCode>>

\* engine.loadFromModule: object creation may fail, which queues exit(-1)
MainLoad ==
    /\ pc = "load"
    /\ qmlFailed' \in BOOLEAN
    /\ pc' = "exec"
    /\ UNCHANGED <<envVars, helperVars, obsVars, histVars, activityVars>>
    /\ UNCHANGED <<mainDevices, variant, readCount, timerActive, exitCode, trace>>

\* the timeout handler: one read, and after maxReads reads stop, close, quit
Tick ==
    /\ pc = "exec"
    /\ timerActive
    /\ \E bytesRead \in {-1, 0, 1}, exc \in BOOLEAN, closeExc \in BOOLEAN :
           LET afterRead == readDataFrom(Cur, ReadBufferSize, 100, <<1>>,
                                         bytesRead, exc)
           IN  /\ readCount' = readCount + 1
               /\ IF ReachedMaxReads(readCount')
                  THEN /\ Ran(Return(closeDeviceFrom(afterRead, closeExc), NULL),
                              "closeDevice", << >>, closeExc)
                       /\ connected' = FALSE
                       /\ trace' = trace \o <<Called("readData", TRUE),
                                              Called("closeDevice", TRUE)>>
                       /\ timerActive' = FALSE
                       /\ pc' = "returned"
                       /\ exitCode' = 0
                  ELSE /\ Ran(afterRead, "readData", <<ReadBufferSize, 100>>, << >>)
                       /\ trace' = Append(trace, Called("readData", TRUE))
                       /\ UNCHANGED <<connected, timerActive, pc, exitCode>>
    /\ retry' = << >>
    /\ UNCHANGED <<driverList, permitted, mainDevices, variant, qmlFailed>>

\* the queued exit(-1) of objectCreationFailed ends the event loop
CreationFailed ==
    /\ pc = "exec"
    /\ qmlFailed
    /\ pc' = "returned"
    /\ exitCode' = -1
    /\ UNCHANGED <<envVars, helperVars, obsVars, histVars, activityVars>>
    /\ UNCHANGED <<mainDevices, variant, readCount, timerActive, qmlFailed, trace>>

\* devices and permissions change while main() runs
MainEnvironment ==
    /\ pc # "returned"
    /\ Attach \/ Detach \/ GrantPermission \/ RevokePermission
    /\ UNCHANGED mainVars

MainInit ==
    /\ Constructed
    /\ variant \in {1, 2}

MainNext ==
    \/ MainScan
    \/ MainOpen
    \/ MainWrite
    \/ MainLoad
    \/ Tick
    \/ CreationFailed
    \/ MainEnvironment

MainSpec == MainInit /\ [][MainNext]_vars

\* ------------------------------------------------------------- MainActivity
\* the UsbDevice objects an intent can carry: the prober finds a driver for
\* every second one
IntentDevices == 101..(100 + NumDrivers + 1)

\* isSerialDevice(device): probeDevice(device) != null
isSerialDevice(device) == \E d \in 1..(NumDrivers + 1) : getDevice(d) = device

Intents ==
    {Intent(action, device) :
        action \in {"USB_DEVICE_ATTACHED", "MAIN"}, device \in {NULL} \cup IntentDevices}

\* notifyUsbDeviceAttached(device): the nativeNotifyUsbDevice call, recorded
\* with the caller and the value qtInitialized has at the call
notifyUsbDeviceAttached(device, caller) ==
    notified' = Append(notified, [device |-> device, by |-> caller,
                                  initialized |-> qtInitialized])

\* the process starts: nothing created, the helper not constructed
ActivityInit ==
    /\ driverList = << >>
    /\ permitted = {}
    /\ openPorts = {}
    /\ m_driver = NULL
    /\ m_port = NULL
    /\ op = "main"
    /\ args = << >>
    /\ ret = NULL
    /\ calls = << >>
    /\ answers = << >>
    /\ connected = FALSE
    /\ retry = << >>
    /\ pc = "main"
    /\ mainDevices = << >>
    /\ variant = 1
    /\ readCount = 0
    /\ timerActive = FALSE
    /\ qmlFailed = FALSE
    /\ exitCode = NULL
    /\ trace = << >>
    /\ instance = NULL
    /\ pendingDevice = NULL
    /\ qtInitialized = FALSE
    /\ uiPc = "idle"
    /\ uiIntent = NoIntent
    /\ qtPc = "start"
    /\ qtStarted = FALSE
    /\ notified = << >>
    /\ handled = << >>
    /\ intents = 0

\* onCreate, line 19: super.onCreate, which starts the Qt thread on the first
\* creation; getIntent() is the intent that launched the activity
onCreate(intent) ==
    /\ uiPc = "idle"
    /\ instance = NULL
    /\ intents < MaxIntents
    /\ intents' = intents + 1
    /\ uiIntent' = intent
    /\ qtStarted' = TRUE
    /\ uiPc' = "onCreate"
    /\ UNCHANGED <<instance, pendingDevice, qtInitialized, qtPc, notified, handled>>

\* onCreate, line 20: instance = this, then handleUsbIntent(getIntent())
onCreateStore ==
    /\ uiPc = "onCreate"
    /\ instance' = Activity
    /\ uiPc' = "handleUsbIntent"
    /\ UNCHANGED <<pendingDevice, qtInitialized, uiIntent, qtPc, qtStarted, notified,
                   handled, intents>>

\* onDestroy: instance = null
onDestroy ==
    /\ uiPc = "idle"
    /\ instance # NULL
    /\ instance' = NULL
    /\ UNCHANGED <<pendingDevice, qtInitialized, uiPc, uiIntent, qtPc, qtStarted,
                   notified, handled, intents>>

\* onNewIntent: setIntent(intent), then handleUsbIntent(intent)
onNewIntent(intent) ==
    /\ uiPc = "idle"
    /\ instance # NULL
    /\ intents < MaxIntents
    /\ intents' = intents + 1
    /\ uiIntent' = intent
    /\ uiPc' = "handleUsbIntent"
    /\ UNCHANGED <<instance, pendingDevice, qtInitialized, qtPc, qtStarted, notified,
                   handled>>

\* mutant of handleUsbIntent: qtInitialized is not tested
handleUsbIntent_IgnoresQtInitialized ==
    /\ uiPc = "handleUsbIntent"
    /\ uiPc' = IF /\ uiIntent.action = "USB_DEVICE_ATTACHED"
                  /\ uiIntent.device # NULL
                  /\ isSerialDevice(uiIntent.device)
               THEN "notify"
               ELSE "idle"
    /\ UNCHANGED <<instance, pendingDevice, qtInitialized, uiIntent, qtPc, qtStarted,
                   notified, handled, intents>>

\* handleUsbIntent, lines 38-41: the tests, the read of qtInitialized last
handleUsbIntent ==
    /\ uiPc = "handleUsbIntent"
    /\ uiPc' = IF /\ uiIntent.action = "USB_DEVICE_ATTACHED"
                  /\ uiIntent.device # NULL
                  /\ isSerialDevice(uiIntent.device)
               THEN IF qtInitialized THEN "notify" ELSE "store"
               ELSE "idle"
    /\ UNCHANGED <<instance, pendingDevice, qtInitialized, uiIntent, qtPc, qtStarted,
                   notified, handled, intents>>

\* handleUsbIntent, line 42: notifyUsbDeviceAttached(device)
handleUsbIntentNotify ==
    /\ uiPc = "notify"
    /\ notifyUsbDeviceAttached(uiIntent.device, "handleUsbIntent")
    /\ handled' = Append(handled, uiIntent.device)
    /\ uiPc' = "idle"
    /\ UNCHANGED <<instance, pendingDevice, qtInitialized, uiIntent, qtPc, qtStarted,
                   intents>>

\* handleUsbIntent, line 44: pendingDevice = device
handleUsbIntentStore ==
    /\ uiPc = "store"
    /\ pendingDevice' = uiIntent.device
    /\ handled' = Append(handled, uiIntent.device)
    /\ uiPc' = "idle"
    /\ UNCHANGED <<instance, qtInitialized, uiIntent, qtPc, qtStarted, notified,
                   intents>>

\* onQtInitialized, line 51, called by the helper's constructor on the Qt
\* thread: qtInitialized = true
onQtInitialized ==
    /\ qtPc = "start"
    /\ qtStarted
    /\ qtInitialized' = TRUE
    /\ qtPc' = "deliver"
    /\ UNCHANGED <<instance, pendingDevice, uiPc, uiIntent, qtStarted, notified,
                   handled, intents>>

\* onQtInitialized, lines 52-55: the pending device is delivered and cleared
onQtInitializedDeliver ==
    /\ qtPc = "deliver"
    /\ IF pendingDevice # NULL /\ instance # NULL
       THEN /\ notifyUsbDeviceAttached(pendingDevice, "onQtInitialized")
            /\ pendingDevice' = NULL
       ELSE UNCHANGED <<notified, pendingDevice>>
    /\ qtPc' = "done"
    /\ UNCHANGED <<instance, qtInitialized, uiPc, uiIntent, qtStarted, handled, intents>>

appVars == <<envVars, helperVars, obsVars, histVars, mainVars>>

\* the activity's callbacks, one at a time on its thread, and onQtInitialized
\* on the Qt thread, statement by statement in any interleaving
ActivityNext ==
    \/ \E intent \in Intents : onCreate(intent) /\ UNCHANGED appVars
    \/ onCreateStore /\ UNCHANGED appVars
    \/ onDestroy /\ UNCHANGED appVars
    \/ \E intent \in Intents : onNewIntent(intent) /\ UNCHANGED appVars
    \/ handleUsbIntent /\ UNCHANGED appVars
    \/ handleUsbIntentNotify /\ UNCHANGED appVars
    \/ handleUsbIntentStore /\ UNCHANGED appVars
    \/ onQtInitialized /\ UNCHANGED appVars
    \/ onQtInitializedDeliver /\ UNCHANGED appVars

ActivitySpec == ActivityInit /\ [][ActivityNext]_vars

\* ------------------------------------------------------------- claims
\* how often the method that ran last made the call `name`
Count(name) == Cardinality({i \in DOMAIN calls : calls[i].call = name})

\* the names of the calls it made, in order
CallNames == [i \in DOMAIN calls |-> calls[i].call]

\* C1: an openDevice whose hasPermission call answered false returns false,
\* calls requestPermission exactly once (for that device) and neither opens a
\* USB connection nor calls open or setParameters on a port.
C1_NoPermissionFails ==
    \A i \in DOMAIN calls :
        (op = "openDevice" /\ calls[i].call = "hasPermission" /\ calls[i].res = FALSE)
        => /\ ret = FALSE
           /\ Count("requestPermission") = 1
           /\ \A j \in DOMAIN calls :
                  calls[j].call = "requestPermission" => calls[j].obj = calls[i].obj
           /\ Count("usbManager.openDevice") = 0
           /\ Count("open") = 0
           /\ Count("setParameters") = 0

\* C1 witness: an openDevice ran into a missing permission for a real device
C1_Witness ==
    /\ op = "openDevice"
    /\ \E i \in DOMAIN calls :
           /\ calls[i].call = "hasPermission"
           /\ calls[i].res = FALSE
           /\ calls[i].obj \in Devices

\* C2: writeData returns true exactly when the port handle is valid, the
\* driver's write raised no exception and the count it reported equals
\* data.size(); with an invalid handle the driver is not called.
C2_WriteResult ==
    op = "writeData" =>
        /\ ~IsValid(m_port) => (ret = FALSE /\ calls = << >>)
        /\ IsValid(m_port) =>
               /\ CallNames = <<"write">>
               /\ calls[1].obj = m_port
               /\ ret = (~calls[1].exc /\ calls[1].res = Len(args[1]))

\* C2 witness: a write whose driver reported more bytes than were passed
C2_Witness ==
    /\ op = "writeData"
    /\ IsValid(m_port)
    /\ calls[1].res > Len(args[1])
    /\ ~calls[1].exc
    /\ ret = FALSE

\* C3 (as claimed): while no connection is open, both handles are invalid,
\* so readData returns an empty array and writeData returns false without
\* calling the driver.
C3_NoConnectionNoHandles ==
    ~connected =>
        /\ m_driver = NULL
        /\ m_port = NULL
        /\ op = "readData" => (ret = << >> /\ calls = << >>)
        /\ op = "writeData" => (ret = FALSE /\ calls = << >>)

\* C4: a closeDevice step ends with both handles invalid whatever close()
\* raised; close() is called once, on the port held, if the port handle was
\* valid and not at all otherwise; a closeDevice in the state a closeDevice
\* leaves (both handles invalid) calls nothing and changes nothing.
C4_CloseEndsClosed ==
    [][op' = "closeDevice" =>
          /\ m_port' = NULL
          /\ m_driver' = NULL
          /\ IsValid(m_port) => (CallNames' = <<"close">> /\ calls'[1].obj = m_port)
          /\ ~IsValid(m_port) => calls' = << >>
          /\ (~IsValid(m_port) /\ ~IsValid(m_driver)) =>
                 (calls' = << >> /\ UNCHANGED <<m_driver, m_port, openPorts>>)]_vars

\* C4 witness: a closeDevice whose close() raised an exception
C4_Witness ==
    /\ op = "closeDevice"
    /\ Len(calls) = 1
    /\ calls[1].exc
    /\ m_port = NULL
    /\ m_driver = NULL

\* C5: readData returns an empty array when the port handle is invalid (the
\* driver is not called), when read raised or when bytesRead <= 0; otherwise
\* it returns the first bytesRead bytes of the buffer.
C5_ReadResult ==
    op = "readData" =>
        /\ ~IsValid(m_port) => (ret = << >> /\ calls = << >>)
        /\ IsValid(m_port) =>
               /\ CallNames = <<"read">>
               /\ IF calls[1].exc \/ calls[1].res.bytesRead <= 0
                  THEN ret = << >>
                  ELSE /\ Len(ret) = calls[1].res.bytesRead
                       /\ \A i \in 1..calls[1].res.bytesRead :
                              ret[i] = calls[1].res.buffer[i]

\* C5 witness: a read that filled less than the buffer
C5_Witness ==
    /\ op = "readData"
    /\ IsValid(m_port)
    /\ ~calls[1].exc
    /\ calls[1].res.bytesRead > 0
    /\ calls[1].res.bytesRead < Len(calls[1].res.buffer)
    /\ Len(ret) = calls[1].res.bytesRead

\* C6: an openDevice that returns true made exactly the calls driver lookup,
\* hasPermission, getPorts, usbManager.openDevice, open, setParameters, in this
\* order, none of which failed; setParameters gets the caller's baud rate and
\* 8, 1, 0; no openDevice makes any of its calls twice.
OpenSteps == <<"findAllDrivers", "hasPermission", "getPorts",
               "usbManager.openDevice", "open", "setParameters">>

C6_OpenOrder ==
    op = "openDevice" =>
        /\ ret = TRUE =>
               /\ CallNames = OpenSteps
               /\ \A i \in DOMAIN calls : ~calls[i].exc
               /\ calls[2].res = TRUE
               /\ calls[4].res = TRUE
               /\ calls[5].obj = m_port
               /\ calls[6].obj = m_port
        /\ \A i \in DOMAIN calls :
               calls[i].call = "setParameters" => calls[i].args = <<args[3], 8, 1, 0>>
        /\ \A i, j \in DOMAIN calls : calls[i].call = calls[j].call => i = j

\* C6 witness: an openDevice at the other baud rate returned true
C6_Witness ==
    /\ op = "openDevice"
    /\ ret = TRUE
    /\ args[3] = 115200
    /\ Count("setParameters") = 1

\* C7: getAvailableDevices returns one entry per valid driver of the driver
\* list, in list order, with that driver's class name and port count and, for
\* a driver that has a UsbDevice, that device's name, vendor ID and product ID;
\* it returns an empty list when the native interface, the context, the
\* UsbManager, the prober or the driver list is unavailable.
C7_ScanResult ==
    op = "getAvailableDevices" =>
        IF answers # "none" THEN ret = << >>
        ELSE LET valid == SelectSeq(driverList, IsValid)
             IN  /\ Len(ret) = Len(valid)
                 /\ Len(ret) <= Len(driverList)
                 /\ \A i \in DOMAIN valid :
                        /\ ret[i].driverName = getSimpleName(valid[i])
                        /\ ret[i].portCount = PortCount(valid[i])
                        /\ IsValid(getDevice(valid[i])) =>
                               /\ ret[i].deviceName = getDeviceName(getDevice(valid[i]))
                               /\ ret[i].vendorId = getVendorId(getDevice(valid[i]))
                               /\ ret[i].productId = getProductId(getDevice(valid[i]))

\* C7 witness: a scan of a list whose first entry is no driver object and whose
\* second is a driver with a device
C7_Witness ==
    /\ op = "getAvailableDevices"
    /\ answers = "none"
    /\ Len(driverList) = 2
    /\ driverList[1] = NULL
    /\ IsValid(driverList[2])
    /\ IsValid(getDevice(driverList[2]))
    /\ Len(ret) = 1

\* C9: getAvailableDevices, getDriverAtIndex, readData and writeData leave
\* m_driver and m_port as they were, whatever the environment answers.
C9_DiscoveryAndIoKeepHandles ==
    [][op' \in {"getAvailableDevices", "getDriverAtIndex", "readData", "writeData"}
          => UNCHANGED <<m_driver, m_port>>]_vars

\* C9 witness: a read that raised an exception on an open connection, which is
\* still open
C9_Witness ==
    /\ op = "readData"
    /\ connected
    /\ Len(calls) = 1
    /\ calls[1].exc
    /\ IsValid(m_port)
    /\ m_port \in openPorts

\* the openDevice that just ran repeated, with the same arguments and an
\* unchanged driver list, one that had returned false for missing permission,
\* and no call it made failed
RetriedAfterGrant == Len(retry) = 2 /\ answers = "none"

\* C10 (as claimed): such a retry, made after the permission was granted,
\* returns true and leaves the helper open.
C10_RetryOpens ==
    (RetriedAfterGrant /\ Count("requestPermission") = 0)
    => (ret = TRUE /\ connected /\ IsValid(m_port) /\ m_port \in openPorts)

\* C10 (amended): it does so when the port index is one of the device's ports.
C10_RetryOpensValidPort ==
    (/\ RetriedAfterGrant
     /\ Count("requestPermission") = 0
     /\ args[2] >= 0
     /\ args[2] < PortCount(driverList[args[1] + 1]))
    => (ret = TRUE /\ connected /\ IsValid(m_port) /\ m_port \in openPorts
        /\ m_port = getPorts(driverList[args[1] + 1])[args[2] + 1])

\* C10 witness: a retry after the grant that opened the port
C10_Witness ==
    /\ RetriedAfterGrant
    /\ ret = TRUE
    /\ connected
    /\ m_port \in openPorts

\* where main() called the helper method `name`
At(name) == {i \in DOMAIN trace : trace[i].m = name}

\* C8: main() reads once per timer tick and never more than maxReads times; the
\* tick of read number maxReads, and no other, stops the timer, calls
\* closeDevice and quits, and closeDevice is the last helper call; the one
\* writeData comes right after the openDevice that returned true and before
\* every readData.
C8_MainPolling ==
    /\ Cardinality(At("readData")) = readCount
    /\ readCount <= maxReads
    /\ timerActive => readCount < maxReads
    /\ Cardinality(At("writeData")) <= 1
    /\ \A j \in At("writeData") :
           /\ j > 1
           /\ trace[j - 1] = Called("openDevice", TRUE)
           /\ \A i \in At("readData") : i > j
    /\ At("readData") # {} => At("writeData") # {}
    /\ readCount = maxReads <=> At("closeDevice") # {}
    /\ \A k \in At("closeDevice") :
           /\ k = Len(trace)
           /\ trace[k - 1].m = "readData"
           /\ ~timerActive
           /\ pc = "returned"
           /\ exitCode = 0
    /\ (pc = "returned" /\ exitCode = 0) => readCount = maxReads

\* C8 witness: main() returned from the event loop after the last tick
C8_Witness ==
    /\ pc = "returned"
    /\ exitCode = 0
    /\ readCount = maxReads
    /\ trace[Len(trace)].m = "closeDevice"
    /\ m_port = NULL

\* C11: an openDevice whose setParameters raised returns false, calls close()
\* right after it on the port it had opened, and ends with m_port and m_driver
\* invalid and that port no longer open, whatever close() raised.
C11_SetParametersFailureCloses ==
    \A i \in DOMAIN calls :
        (op = "openDevice" /\ calls[i].call = "setParameters" /\ calls[i].exc)
        => /\ ret = FALSE
           /\ i > 1
           /\ calls[i - 1].call = "open"
           /\ calls[i - 1].obj = calls[i].obj
           /\ Len(calls) = i + 1
           /\ calls[i + 1].call = "close"
           /\ calls[i + 1].obj = calls[i].obj
           /\ m_port = NULL
           /\ m_driver = NULL
           /\ calls[i].obj \notin openPorts

\* C11 witness: setParameters raised on the port just opened, and so did the
\* close() that followed
C11_Witness ==
    /\ op = "openDevice"
    /\ answers = "setParametersExc+closeExc"
    /\ Count("open") = 1
    /\ Count("close") = 1
    /\ calls[Len(calls)].exc
    /\ ret = FALSE

\* C12: an openDevice whose deviceIndex is negative or not below the size of
\* the driver list returns false, leaves m_driver and m_port as they were and
\* calls nothing after the driver lookup: no permission is requested, no
\* connection and no port is opened.
C12_BadDeviceIndexChangesNothing ==
    [][(op' = "openDevice" /\ (args'[1] < 0 \/ args'[1] >= Len(driverList)))
          => /\ ret' = FALSE
             /\ UNCHANGED <<m_driver, m_port, openPorts>>
             /\ \A i \in DOMAIN calls' : calls'[i].call = "findAllDrivers"]_vars

\* C12 witness: an openDevice with an index past the list, on a helper that
\* holds an open port
C12_Witness ==
    /\ op = "openDevice"
    /\ args[1] >= Len(driverList)
    /\ CallNames = <<"findAllDrivers">>
    /\ ret = FALSE
    /\ IsValid(m_driver)
    /\ m_port \in openPorts

\* the ports of a driver
PortsOf(d) == {getPorts(d)[i] : i \in 1..PortCount(d)}

\* C13 (as claimed): a valid m_port is one of the ports of the driver held in
\* m_driver.
C13_PortBelongsToDriver ==
    IsValid(m_port) => (IsValid(m_driver) /\ m_port \in PortsOf(m_driver))

\* C14 (as claimed): every port that is open is the port m_port refers to, so
\* at most one port is open at a time and none is open and unreachable.
C14_NoOpenPortLeaked ==
    /\ openPorts \subseteq {m_port}
    /\ Cardinality(openPorts) <= 1

\* C15 (as claimed): the openDevice(i, ...) of main(), with i an index of the
\* list its scan returned, selects the device of entry i of that list whenever
\* the driver list it queries has an entry i and no call fails.
C15_ScanIndexIsOpenIndex ==
    (/\ op = "openDevice"
     /\ pc # "main"
     /\ answers = "none"
     /\ args[1] < Len(mainDevices)
     /\ Len(calls) >= 1
     /\ calls[1].call = "findAllDrivers"
     /\ args[1] < calls[1].res)
    => /\ IsValid(m_driver)
       /\ mainDevices[args[1] + 1].driverName = getSimpleName(m_driver)
       /\ mainDevices[args[1] + 1].portCount = PortCount(m_driver)
       /\ mainDevices[args[1] + 1].deviceName =
              IF IsValid(getDevice(m_driver)) THEN getDeviceName(getDevice(m_driver))
              ELSE << >>

\* C16: once openDevice(0, 0, 9600) returned false, main() has returned 1:
\* that call is its last helper call (no writeData, no readData), the timer
\* was not started and the event loop not entered.
C16_FailedOpenReturns1 ==
    \A i \in DOMAIN trace :
        trace[i] = Called("openDevice", FALSE)
        => /\ i = Len(trace)
           /\ pc = "returned"
           /\ exitCode = 1
           /\ ~timerActive
           /\ readCount = 0
           /\ At("writeData") = {}
           /\ At("readData") = {}
           /\ At("closeDevice") = {}

\* C16 witness: the second version of main() returned after an openDevice
\* that failed for missing permission
C16_Witness ==
    /\ variant = 2
    /\ pc = "returned"
    /\ exitCode = 1
    /\ Len(trace) = 2
    /\ trace[2] = Called("openDevice", FALSE)
    /\ PermissionDenied([calls |-> calls])

\* C17: every nativeNotifyUsbDevice call is made with qtInitialized true, in
\* any interleaving of the callbacks with onQtInitialized; while qtInitialized
\* is false no call was made and the attach handled last is in pendingDevice.
C17_NotifyOnlyWhenInitialized ==
    /\ \A i \in DOMAIN notified : notified[i].initialized
    /\ ~qtInitialized =>
           /\ notified = << >>
           /\ uiPc # "notify"
           /\ handled # << >> => pendingDevice = handled[Len(handled)]

\* C17 witness: one attach was stored before onQtInitialized and delivered by
\* it, one was handled afterwards and delivered by handleUsbIntent
C17_Witness ==
    /\ Len(notified) = 2
    /\ notified[1].by = "onQtInitialized"
    /\ notified[2].by = "handleUsbIntent"
    /\ pendingDevice = NULL

\* the devices of the nativeNotifyUsbDevice calls
Delivered == {notified[i].device : i \in DOMAIN notified}

\* C18 (as claimed): once onQtInitialized has run and no callback is running,
\* every serial device whose attach intent was handled has been delivered to
\* native code.
C18_NoAttachLost ==
    (qtPc = "done" /\ uiPc = "idle")
    => \A i \in DOMAIN handled : handled[i] \in Delivered

====
